---- MODULE Spec2Model ----
(***************************************************************************)
(* Adaptive traffic-signal controller: DensityAnalyzer, TrafficOptimizer   *)
(* and TrafficSimulator (src/src/*.py), with the SUMO/TraCI engine as the  *)
(* environment (simulation clock, per-approach vehicles, signal register). *)
(*                                                                         *)
(* Numbers.  A density is vehicles / edge_length; the histories store the  *)
(* vehicle count, i.e. the density times edge_length.  A priority score is *)
(* a rational with denominator PriorityScale; the model stores the         *)
(* numerator (exact real arithmetic in place of the code's floats).        *)
(***************************************************************************)
EXTENDS Integers, Sequences, FiniteSets, TLC

\* ------------------------------------------------------------- bounds
MaxTime == 40             \* simulated seconds explored after a (re)start
StepLength == 5           \* simulated seconds per traci.simulationStep()
MaxTicks == 8             \* step_simulation calls explored in one behaviour
MaxFeedChanges == 2       \* times the traffic on an approach changes (controller runs)
MaxStarts == 2            \* successful traci.start calls in one behaviour
HighCount == 40           \* vehicles on a loaded approach
MaxEmergency == 2         \* emergency vehicles on one approach
MaxRecordings == 52       \* get_all_densities calls explored (analyzer runs)
MaxAnalyzerFeedChanges == 1  \* times the traffic changes (analyzer runs)
MaxAggregations == 12     \* get_optimization_recommendations calls explored (aggregator runs)
MaxMixedCount == 3        \* vehicles on each approach when all four are loaded (aggregator runs)
MaxCount == 60            \* vehicles on an approach (congestion runs)
MaxVehicles == 2          \* vehicles in the resolver's vehicle list
MaxPasses == 2            \* manage_junction_yielding calls explored
MaxResets == 1            \* direct reset_optimization calls explored
MaxLongTicks == 102       \* step_simulation calls explored on steady roads (history runs)
ServiceBound == 4         \* ticks an emergency vehicle is given to be served
FineStep == 1             \* simulated seconds per step (one-second runs)
MaxFineTicks == 24        \* step_simulation calls explored with emergencies (one-second runs)
MaxCycleTicks == 100      \* step_simulation calls explored without emergencies (one-second runs)
HeavyCount == 80          \* vehicles on a heavily loaded approach
MaxArrivalTicks == 16     \* ticks within which the traffic changes (one-second runs without emergencies)

\* ---------------------------------------------------- program constants
max_history_length == 50
edge_length == 100
Window == 10
MIN_GREEN == 15
MAX_GREEN == 90
MAX_WAIT_TIME == 60
ThresholdNum == 3         \* PREEMPTIVE_SWITCH_THRESHOLD = 1.5 = 3/2
ThresholdDen == 2
EmergencyBonus == 200
EmergencyDuration == 60
NumPhases == 4
InitGreen == 30
YellowDuration == 3
sim_max_history_length == 100
YieldDistance == 25
BaseGreenTime == 30
MaxRecommendedGreen == 60

Approaches == <<"north2center", "south2center", "east2center", "west2center">>
ApproachSet == {Approaches[i] : i \in 1..4}
NoApproach == "None"

InitPhases == [p \in 0..(NumPhases - 1) |-> IF p \in {0, 2} THEN InitGreen ELSE YellowDuration]

VARIABLES
  traciTime,            \* traci.simulation.getTime()
  traciVehicles,        \* traci.edge.getLastStepVehicleNumber(approach)
  traciEmergency,       \* vehicles of type "emergency" on the approach
  traciPhase,           \* traci.trafficlight.getPhase("center")
  phase_start_time,     \* TrafficOptimizer.phase_start_time
  current_phase_index,  \* TrafficOptimizer.current_phase_index
  phases,               \* TrafficOptimizer.phases[i]["duration"]
  density_history,      \* DensityAnalyzer.density_history
  simulation_running,   \* TrafficSimulator.simulation_running
  simulation_time,      \* TrafficSimulator.simulation_time
  optimization_history, \* TrafficSimulator.optimization_history (timestamps of its entries)
  step_result,          \* what the last operation returned / decided
  commands,             \* actuator commands issued by the last operation, in order
  recorded,             \* every density sample ever recorded, per approach, in order
  signal_since,         \* traciTime at which the signal took the phase it shows
  traciVehicleList,     \* traci.vehicle.getIDList() with each vehicle's road, route and gap
  yield_passes,         \* calls of TrafficOptimizer.manage_junction_yielding so far
  traciFault,           \* the data-feed queries that raise at present
  run,                  \* position of run_simulation_for_duration
  feedChanges, ticks, starts,
  resets,               \* direct calls of TrafficOptimizer.reset_optimization so far
  traciStopped,         \* ids of the vehicles held by traci.vehicle.setSpeed(id, 0.0)
  emergency_wait        \* consecutive ticks, up to the last, that ended with an emergency
                        \* vehicle on east or west and the signal not in phase 2

vars == <<traciTime, traciVehicles, traciEmergency, traciPhase, phase_start_time,
          current_phase_index, phases, density_history, simulation_running,
          simulation_time, optimization_history, step_result, commands, recorded,
          signal_since, traciVehicleList, yield_passes, traciFault, run,
          feedChanges, ticks, starts, resets, emergency_wait, traciStopped>>

Max(a, b) == IF a >= b THEN a ELSE b
Min(a, b) == IF a <= b THEN a ELSE b

RECURSIVE SumTo(_, _)
SumTo(f, n) == IF n = 0 THEN 0 ELSE f[n] + SumTo(f, n - 1)

\* ------------------------------------------------------ DensityAnalyzer
\* vehicles / edge_length, stored as the vehicle count
calculate_density(veh, a) == veh[a]

\* AppendSample evicting the newest sample instead of the oldest
AppendSample_DropNewest(h, d) ==
  LET h1 == Append(h, d)
  IN IF Len(h1) > max_history_length THEN SubSeq(h1, 1, Len(h1) - 1) ELSE h1

AppendSample(h, d) ==
  LET h1 == Append(h, d)
  IN IF Len(h1) > max_history_length THEN Tail(h1) ELSE h1

get_all_densities(hist, veh) ==
  [a \in ApproachSet |-> AppendSample(hist[a], calculate_density(veh, a))]

\* The least-squares slope over x = 0..Window-1 of the last Window samples is
\* 6 * SUM (2x - (Window-1)) * y / (Window * (Window^2 - 1)); this is the SUM,
\* over the stored counts.
\* get_density_trend fitting the oldest Window samples instead of the newest
get_density_trend_Oldest(h) ==
  IF Len(h) < Window THEN 0
  ELSE LET recent == SubSeq(h, 1, Window)
           term == [i \in 1..Window |-> (2 * (i - 1) - (Window - 1)) * recent[i]]
       IN SumTo(term, Window)

get_density_trend(h) ==
  IF Len(h) < Window THEN 0
  ELSE LET recent == SubSeq(h, Len(h) - Window + 1, Len(h))
           term == [i \in 1..Window |-> (2 * (i - 1) - (Window - 1)) * recent[i]]
       IN SumTo(term, Window)

\* density*100 + trend*50 + emergencies*200 = numerator / PriorityScale
PriorityScale == (Window * (Window * Window - 1)) \div 3

\* get_priority_score without the clamp at 0
get_priority_score_NoClamp(hist, veh, em, a) ==
  PriorityScale * ((100 * calculate_density(veh, a)) \div edge_length)
  + get_density_trend(hist[a]) + PriorityScale * EmergencyBonus * em[a]

get_priority_score(hist, veh, em, a) ==
  LET base_priority == PriorityScale * ((100 * calculate_density(veh, a)) \div edge_length)
      trend_bonus == get_density_trend(hist[a])
      emergency_bonus == PriorityScale * EmergencyBonus * em[a]
  IN Max(0, base_priority + trend_bonus + emergency_bonus)

\* what calculate_density reads: 0 for an approach whose number query raises
SeenVehicles(veh, fault) ==
  [a \in ApproachSet |->
     IF fault.approach = a /\ "number" \in fault.queries THEN 0 ELSE veh[a]]

\* what check_emergency_vehicles returns: 0 for an approach whose ids query raises
SeenEmergency(em, fault) ==
  [a \in ApproachSet |->
     IF fault.approach = a /\ "ids" \in fault.queries THEN 0 ELSE em[a]]

\* MaxPriorityApproach returning the last approach holding the maximum
MaxPriorityApproach_Last(prio) ==
  Approaches[CHOOSE i \in 1..4 :
               /\ \A j \in 1..4 : prio[Approaches[i]] >= prio[Approaches[j]]
               /\ \A j \in (i + 1)..4 : prio[Approaches[j]] < prio[Approaches[i]]]

\* max(priorities, key=priorities.get): the first approach holding the maximum
MaxPriorityApproach(prio) ==
  Approaches[CHOOSE i \in 1..4 :
               /\ \A j \in 1..4 : prio[Approaches[i]] >= prio[Approaches[j]]
               /\ \A j \in 1..(i - 1) : prio[Approaches[j]] < prio[Approaches[i]]]

\* max(15, min(60, int(30 * (1 + density_ratio * 2)))) with density_ratio =
\* density / total_density.  The product is evaluated in binary floating point:
\* int() gives the floor of the exact value, except that when the exact value
\* is a whole number v the evaluation may end just below it and int() gives
\* v - 1 (30 * (1 + (0.4 / 1.2) * 2) evaluates to 49.99999999999999).  Which
\* of the two it is depends on the operands and on how sum() adds floats.
GreenTimeOutcomes(total_density, density) ==
  LET exact == BaseGreenTime * (total_density + 2 * density)
      floor == exact \div total_density
      Clamp(g) == Max(MIN_GREEN, Min(MaxRecommendedGreen, g))
  IN {Clamp(floor)} \cup (IF exact % total_density = 0 THEN {Clamp(floor - 1)} ELSE {})

\* get_optimization_recommendations: the history it leaves and what it returns;
\* "raised" when the unguarded _get_vehicle_number of total_vehicles raises
get_optimization_recommendations(hist, veh, em, fault) ==
  LET sv == SeenVehicles(veh, fault)
      se == SeenEmergency(em, fault)
      h1 == get_all_densities(hist, sv)
      densities == [a \in ApproachSet |-> calculate_density(sv, a)]
      priorities == [a \in ApproachSet |-> get_priority_score(h1, sv, se, a)]
      max_priority_approach == MaxPriorityApproach(priorities)
      total_density == SumTo([i \in 1..4 |-> densities[Approaches[i]]], 4)
      recommended_green_times ==
        IF total_density > 0
        THEN GreenTimeOutcomes(total_density, densities[max_priority_approach])
        ELSE {BaseGreenTime}
  IN [raised |-> "number" \in fault.queries,
      history |-> h1,
      densities |-> densities,
      priorities |-> priorities,
      recommended_approach |-> max_priority_approach,
      recommended_green_times |-> recommended_green_times,
      total_vehicles |-> SumTo([i \in 1..4 |-> veh[Approaches[i]]], 4),
      emergency_vehicles |-> SumTo([i \in 1..4 |-> se[Approaches[i]]], 4)]

\* get_congestion_level with the thresholds counted into the lower level
get_congestion_level_Inclusive(veh, fault, a) ==
  LET density == calculate_density(SeenVehicles(veh, fault), a)
  IN IF 10 * density <= edge_length THEN "Low"
     ELSE IF 10 * density <= 3 * edge_length THEN "Medium"
     ELSE IF 10 * density <= 5 * edge_length THEN "High"
     ELSE "Critical"

\* get_congestion_level: density < 0.1, < 0.3, < 0.5 with density = count / edge_length
get_congestion_level(veh, fault, a) ==
  LET density == calculate_density(SeenVehicles(veh, fault), a)
  IN IF 10 * density < edge_length THEN "Low"
     ELSE IF 10 * density < 3 * edge_length THEN "Medium"
     ELSE IF 10 * density < 5 * edge_length THEN "High"
     ELSE "Critical"

\* ----------------------------------------------------- TrafficOptimizer
\* get_current_phase_info answering with the values of its except branch
get_current_phase_info_Fallback(tl, ph, pst, now) ==
  [phase |-> 0, duration |-> InitGreen, time_in_phase |-> 0]

get_current_phase_info(tl, ph, pst, now) ==
  [phase |-> tl,
   duration |-> IF 0 <= tl /\ tl < NumPhases THEN ph[tl] ELSE InitGreen,
   time_in_phase |-> now - pst]

\* AxisPriority reading the axis the phase does not serve
AxisPriority_Other(prio, p) ==
  IF p = 0 THEN Max(prio["east2center"], prio["west2center"])
  ELSE Max(prio["north2center"], prio["south2center"])

AxisPriority(prio, p) ==
  IF p = 0 THEN Max(prio["north2center"], prio["south2center"])
  ELSE Max(prio["east2center"], prio["west2center"])

\* should_preempt evaluating the rule in the yellow phases too, for the axis
\* whose green preceded the yellow
should_preempt_InYellow(info, prio) ==
  /\ info.phase \in {0, 2} => info.time_in_phase >= MIN_GREEN
  /\ LET green == IF info.phase \in {0, 1} THEN 0 ELSE 2
         current_priority == AxisPriority(prio, green)
         waiting_priority == AxisPriority(prio, 2 - green)
     IN ThresholdDen * waiting_priority > ThresholdNum * current_priority

should_preempt(info, prio) ==
  /\ info.phase \in {0, 2}
  /\ info.time_in_phase >= MIN_GREEN
  /\ LET current_priority == AxisPriority(prio, info.phase)
         waiting_priority == AxisPriority(prio, 2 - info.phase)
     IN ThresholdDen * waiting_priority > ThresholdNum * current_priority

\* calculate_optimal_duration without the upper clamp
calculate_optimal_duration_NoMax(ph, p, prio) ==
  IF p \notin {0, 2} THEN ph[p]
  ELSE LET priority == AxisPriority(prio, p)
           duration == MIN_GREEN + (priority * (MAX_GREEN - MIN_GREEN)) \div (100 * PriorityScale)
       IN Max(MIN_GREEN, duration)

calculate_optimal_duration(ph, p, prio) ==
  IF p \notin {0, 2} THEN ph[p]
  ELSE LET priority == AxisPriority(prio, p)
           duration == MIN_GREEN + (priority * (MAX_GREEN - MIN_GREEN)) \div (100 * PriorityScale)
       IN Max(MIN_GREEN, Min(MAX_GREEN, duration))

\* NextPhaseIndex skipping the yellow phase
NextPhaseIndex_Skip(idx) == (idx + 2) % NumPhases

NextPhaseIndex(idx) == (idx + 1) % NumPhases

\* _switch_to_next_phase giving every phase it enters a computed duration, a
\* yellow phase the one of priority 0
switch_to_next_phase_AnyPhase(idx, ph, prio, now) ==
  LET idx1 == NextPhaseIndex(idx)
      ph1 == [ph EXCEPT ![idx1] = IF idx1 \in {0, 2}
                                  THEN calculate_optimal_duration(ph, idx1, prio)
                                  ELSE MIN_GREEN]
  IN [index |-> idx1, phases |-> ph1, start |-> now, signal |-> idx1,
      cmds |-> << [cmd |-> "setPhase", arg |-> idx1, by |-> "switch"],
                  [cmd |-> "setPhaseDuration", arg |-> ph1[idx1], by |-> "switch"] >>]

\* _switch_to_next_phase: the optimizer state and the commands it issues
switch_to_next_phase(idx, ph, prio, now) ==
  LET idx1 == NextPhaseIndex(idx)
      ph1 == IF idx1 \in {0, 2}
             THEN [ph EXCEPT ![idx1] = calculate_optimal_duration(ph, idx1, prio)]
             ELSE ph
  IN [index |-> idx1, phases |-> ph1, start |-> now, signal |-> idx1,
      cmds |-> << [cmd |-> "setPhase", arg |-> idx1, by |-> "switch"],
                  [cmd |-> "setPhaseDuration", arg |-> ph1[idx1], by |-> "switch"] >>]

\* optimize_traffic_lights, given the priorities of its recommendations
optimize_traffic_lights(tl, idx, ph, pst, prio, now) ==
  LET info == get_current_phase_info(tl, ph, pst, now)
      pre == should_preempt(info, prio)
      tout == ~pre /\ info.time_in_phase >= info.duration
      sw == switch_to_next_phase(idx, ph, prio, now)
  IN IF pre \/ tout
     THEN [index |-> sw.index, phases |-> sw.phases, start |-> sw.start,
           signal |-> sw.signal, cmds |-> sw.cmds, preempt |-> pre, timeout |-> tout,
           info |-> info]
     ELSE [index |-> idx, phases |-> ph, start |-> pst, signal |-> tl, cmds |-> << >>,
           preempt |-> FALSE, timeout |-> FALSE, info |-> info]

GreenPhaseOf(a) == IF a \in {"north2center", "south2center"} THEN 0 ELSE 2

EmergencyIndices(em) == {i \in 1..4 : em[Approaches[i]] > 0}

\* FirstEmergency scanning without the break: the last approach found wins
FirstEmergency_Last(em) ==
  LET s == EmergencyIndices(em)
  IN Approaches[CHOOSE i \in s : \A j \in s : i >= j]

FirstEmergency(em) ==
  LET s == EmergencyIndices(em)
  IN Approaches[CHOOSE i \in s : \A j \in s : i <= j]

\* handle_emergency_vehicles that commands the green phase in every tick with
\* an emergency vehicle, also when the signal shows it already
handle_emergency_vehicles_Always(tl, em) ==
  IF EmergencyIndices(em) = {}
  THEN [emergency_detected |-> FALSE, action_taken |-> FALSE,
        affected_approach |-> NoApproach, signal |-> tl, cmds |-> << >>]
  ELSE LET approach == FirstEmergency(em)
           g == GreenPhaseOf(approach)
       IN [emergency_detected |-> TRUE, action_taken |-> TRUE,
           affected_approach |-> approach, signal |-> g,
           cmds |-> << [cmd |-> "setPhase", arg |-> g, by |-> "emergency"],
                       [cmd |-> "setPhaseDuration", arg |-> EmergencyDuration,
                        by |-> "emergency"] >>]

\* handle_emergency_vehicles that leaves a yellow phase alone
handle_emergency_vehicles_NotInYellow(tl, em) ==
  IF EmergencyIndices(em) = {}
  THEN [emergency_detected |-> FALSE, action_taken |-> FALSE,
        affected_approach |-> NoApproach, signal |-> tl, cmds |-> << >>]
  ELSE LET approach == FirstEmergency(em)
           g == GreenPhaseOf(approach)
       IN IF tl # g /\ tl \in {0, 2}
          THEN [emergency_detected |-> TRUE, action_taken |-> TRUE,
                affected_approach |-> approach, signal |-> g,
                cmds |-> << [cmd |-> "setPhase", arg |-> g, by |-> "emergency"],
                            [cmd |-> "setPhaseDuration", arg |-> EmergencyDuration,
                             by |-> "emergency"] >>]
          ELSE [emergency_detected |-> TRUE, action_taken |-> FALSE,
                affected_approach |-> approach, signal |-> tl, cmds |-> << >>]

\* handle_emergency_vehicles, given the phase the signal shows
handle_emergency_vehicles(tl, em) ==
  IF EmergencyIndices(em) = {}
  THEN [emergency_detected |-> FALSE, action_taken |-> FALSE,
        affected_approach |-> NoApproach, signal |-> tl, cmds |-> << >>]
  ELSE LET approach == FirstEmergency(em)
           g == GreenPhaseOf(approach)
       IN IF tl # g
          THEN [emergency_detected |-> TRUE, action_taken |-> TRUE,
                affected_approach |-> approach, signal |-> g,
                cmds |-> << [cmd |-> "setPhase", arg |-> g, by |-> "emergency"],
                            [cmd |-> "setPhaseDuration", arg |-> EmergencyDuration,
                             by |-> "emergency"] >>]
          ELSE [emergency_detected |-> TRUE, action_taken |-> FALSE,
                affected_approach |-> approach, signal |-> tl, cmds |-> << >>]

\* manage_junction_yielding -------------------------------------------------
NoEdge == "none"
NoVehicle == [id |-> 0]

\* _is_left_turn
LeftTurnExit(curr) ==
  CASE curr = "north2center" -> "center2east"
    [] curr = "south2center" -> "center2west"
    [] curr = "east2center" -> "center2south"
    [] curr = "west2center" -> "center2north"
    [] OTHER -> NoEdge
is_left_turn(curr, nxt) == LeftTurnExit(curr) = nxt

\* _is_straight
StraightExit(curr) ==
  CASE curr = "north2center" -> "center2south"
    [] curr = "south2center" -> "center2north"
    [] curr = "east2center" -> "center2west"
    [] curr = "west2center" -> "center2east"
    [] OTHER -> NoEdge
is_straight(curr, nxt) == StraightExit(curr) = nxt

\* the opposite-approach table with every approach opposite to itself
Opposite_Self(curr) == curr

\* the opposite-approach table of _find_oncoming_vehicle
Opposite(curr) ==
  CASE curr = "north2center" -> "south2center"
    [] curr = "south2center" -> "north2center"
    [] curr = "east2center" -> "west2center"
    [] curr = "west2center" -> "east2center"
    [] OTHER -> NoEdge

find_oncoming_vehicle(turner, straight) ==
  LET opp == Opposite(turner.current)
      hits == {i \in 1..Len(straight) : straight[i].current = opp}
  IN IF hits = {} THEN NoVehicle
     ELSE straight[CHOOSE i \in hits : \A j \in hits : i <= j]

RouteIndex(route, road) ==
  CHOOSE i \in 1..Len(route) : route[i] = road /\ \A j \in 1..(i - 1) : route[j] # road

\* the info the first loop keeps of a vehicle, or NoVehicle if it keeps none
JunctionInfo(v) ==
  IF \A i \in 1..Len(v.route) : v.route[i] # v.road THEN NoVehicle
  ELSE IF ~(v.gap < YieldDistance) THEN NoVehicle
  ELSE LET idx == RouteIndex(v.route, v.road)
       IN IF idx + 1 <= Len(v.route)
          THEN [id |-> v.id, current |-> v.road, next |-> v.route[idx + 1]]
          ELSE NoVehicle

\* the commands of the second loop, with the signal commanded as well
yield_commands_HoldSignal(yielding) ==
  [i \in 1..Len(yielding) |->
     [cmd |-> "setSpeed", arg |-> 0, by |-> "yield", veh |-> yielding[i].id]]
  \o << [cmd |-> "setPhase", arg |-> 1, by |-> "yield"] >>

\* the commands of the second loop: traci.vehicle.setSpeed(id, 0.0) per yielding vehicle
yield_commands(yielding) ==
  [i \in 1..Len(yielding) |->
     [cmd |-> "setSpeed", arg |-> 0, by |-> "yield", veh |-> yielding[i].id]]

\* manage_junction_yielding that also releases (speed -1) every left-turning
\* vehicle it finds without an oncoming through vehicle
manage_junction_yielding_Releasing(list) ==
  LET infos == [i \in 1..Len(list) |-> JunctionInfo(list[i])]
      kept == SelectSeq(infos, LAMBDA f : f # NoVehicle)
      turning_left == SelectSeq(kept, LAMBDA f : is_left_turn(f.current, f.next))
      going_straight ==
        SelectSeq(kept, LAMBDA f : ~is_left_turn(f.current, f.next)
                                   /\ is_straight(f.current, f.next))
      yielding ==
        SelectSeq(turning_left,
                  LAMBDA t : find_oncoming_vehicle(t, going_straight) # NoVehicle)
      free ==
        SelectSeq(turning_left,
                  LAMBDA t : find_oncoming_vehicle(t, going_straight) = NoVehicle)
  IN [cmds |-> yield_commands(yielding)
               \o [i \in 1..Len(free) |->
                     [cmd |-> "setSpeed", arg |-> -1, by |-> "yield", veh |-> free[i].id]],
      yielding_actions |->
        [i \in 1..Len(yielding) |->
           [vehicle |-> yielding[i].id,
            yields_to |-> find_oncoming_vehicle(yielding[i], going_straight).id]],
      applied |-> Len(yielding) > 0]

manage_junction_yielding(list) ==
  LET infos == [i \in 1..Len(list) |-> JunctionInfo(list[i])]
      kept == SelectSeq(infos, LAMBDA f : f # NoVehicle)
      turning_left == SelectSeq(kept, LAMBDA f : is_left_turn(f.current, f.next))
      going_straight ==
        SelectSeq(kept, LAMBDA f : ~is_left_turn(f.current, f.next)
                                   /\ is_straight(f.current, f.next))
      yielding ==
        SelectSeq(turning_left,
                  LAMBDA t : find_oncoming_vehicle(t, going_straight) # NoVehicle)
  IN [cmds |-> yield_commands(yielding),
      yielding_actions |->
        [i \in 1..Len(yielding) |->
           [vehicle |-> yielding[i].id,
            yields_to |-> find_oncoming_vehicle(yielding[i], going_straight).id]],
      applied |-> Len(yielding) > 0]

\* the vehicles held at speed 0 once the commands are carried out: setSpeed
\* with 0 holds a vehicle, setSpeed with -1 gives it back to the simulation
StoppedAfter(stopped, cmds) ==
  (stopped \cup {cmds[i].veh : i \in {k \in 1..Len(cmds) :
                                        cmds[k].cmd = "setSpeed" /\ cmds[k].arg = 0}})
  \ {cmds[i].veh : i \in {k \in 1..Len(cmds) :
                           cmds[k].cmd = "setSpeed" /\ cmds[k].arg = -1}}

\* the phase the signal shows once the commands are carried out
SignalAfter(tl, cmds) ==
  LET set == {i \in 1..Len(cmds) : cmds[i].cmd = "setPhase"}
  IN IF set = {} THEN tl ELSE cmds[CHOOSE i \in set : \A j \in set : i >= j].arg

\* ------------------------------------------------------------ environment
EmptyRoad == [a \in ApproachSet |-> 0]
\* <<vehicles, emergency vehicles among them>> on one approach
ApproachLoads == {<<0, 0>>} \cup {<<HighCount, e>> : e \in 0..MaxEmergency}
CountLoads == {<<0, 0>>, <<HighCount, 0>>}

\* The traffic after one more simulation step: unchanged, or one approach
\* loaded differently.
FeedAfterStep(limit, loads) ==
  {[veh |-> traciVehicles, em |-> traciEmergency, changes |-> feedChanges]}
  \cup
  UNION {{[veh |-> [traciVehicles EXCEPT ![a] = l[1]],
           em |-> [traciEmergency EXCEPT ![a] = l[2]],
           changes |-> feedChanges + 1] :
             l \in loads \ {<<traciVehicles[a], traciEmergency[a]>>}} :
         a \in {b \in ApproachSet : feedChanges < limit}}

NoResult == [kind |-> "none"]

\* The feed queries of one approach that raise: "number" is
\* traci.edge.getLastStepVehicleNumber, "ids" is traci.edge.getLastStepVehicleIDs.
NoFault == [approach |-> NoApproach, queries |-> {}]
Faults == {[approach |-> a, queries |-> q] :
             a \in ApproachSet, q \in {{"number"}, {"ids"}, {"number", "ids"}}}

\* run_simulation_for_duration: not called, at the head of its loop ("loop"),
\* or holding the result of the step_simulation call it made ("check")
NoRun == [pc |-> "idle", target |-> 0, steps |-> 0, errors |-> 0]

\* step_simulation is called by the user, or by the loop while its condition holds
CalledStep ==
  \/ run.pc = "idle"
  \/ run.pc = "loop" /\ simulation_time < run.target /\ simulation_running

AfterStep == IF run.pc = "loop" THEN [run EXCEPT !.pc = "check"] ELSE run

Init ==
  /\ traciTime = 0
  /\ traciVehicles = EmptyRoad
  /\ traciEmergency = EmptyRoad
  /\ traciPhase = 0
  /\ phase_start_time = 0
  /\ current_phase_index = 0
  /\ phases = InitPhases
  /\ density_history = [a \in ApproachSet |-> << >>]
  /\ simulation_running = FALSE
  /\ simulation_time = 0
  /\ optimization_history = << >>
  /\ step_result = NoResult
  /\ commands = << >>
  /\ recorded = [a \in ApproachSet |-> << >>]
  /\ signal_since = 0
  /\ traciVehicleList = << >>
  /\ yield_passes = 0
  /\ traciFault = NoFault
  /\ run = NoRun
  /\ feedChanges = 0
  /\ ticks = 0
  /\ starts = 0
  /\ resets = 0
  /\ emergency_wait = 0
  /\ traciStopped = {}

\* ------------------------------------------------------ TrafficSimulator
\* start_simulation: traci.start succeeds on a stopped simulator; SUMO loads
\* with its clock at 0, the signal program at phase 0 and no vehicle inserted.
StartSimulation ==
  /\ ~simulation_running
  /\ starts < MaxStarts
  /\ simulation_running' = TRUE
  /\ simulation_time' = 0
  /\ traciTime' = 0
  /\ traciPhase' = 0
  /\ traciVehicles' = EmptyRoad
  /\ traciEmergency' = EmptyRoad
  /\ starts' = starts + 1
  /\ signal_since' = 0
  /\ step_result' = [kind |-> "start", ok |-> TRUE]
  /\ commands' = << >>
  /\ traciVehicleList' = << >>
  /\ traciStopped' = {}
  /\ emergency_wait' = 0
  /\ UNCHANGED <<resets, phase_start_time, current_phase_index, phases, density_history,
                 optimization_history, recorded, yield_passes, traciFault, run,
                 feedChanges, ticks>>

\* stop_simulation: traci.close(); afterwards every query raises, which the
\* analyzer reads as an empty road.
StopSimulation ==
  /\ simulation_running
  /\ simulation_running' = FALSE
  /\ traciVehicles' = EmptyRoad
  /\ traciEmergency' = EmptyRoad
  /\ step_result' = [kind |-> "stop"]
  /\ commands' = << >>
  /\ traciVehicleList' = << >>
  /\ traciStopped' = {}
  /\ UNCHANGED <<emergency_wait, resets, traciTime, traciPhase, phase_start_time, current_phase_index, phases,
                 density_history, simulation_time, optimization_history, recorded,
                 signal_since, yield_passes, traciFault, run, feedChanges, ticks, starts>>

\* reset_optimization: the optimizer state and the commands it issues
reset_optimization(ph) ==
  [index |-> 0, start |-> 0, signal |-> 0,
   cmds |-> << [cmd |-> "setPhase", arg |-> 0, by |-> "reset"],
               [cmd |-> "setPhaseDuration", arg |-> ph[0], by |-> "reset"] >>]

\* reset_optimization whose assignments stand inside the try block, after the
\* commands
reset_optimization_outcome_InTry(idx, pst, tl, ph, accepted) ==
  LET r == reset_optimization(ph)
  IN [index |-> IF accepted = Len(r.cmds) THEN r.index ELSE idx,
      start |-> IF accepted = Len(r.cmds) THEN r.start ELSE pst,
      signal |-> IF accepted >= 1 THEN r.signal ELSE tl,
      cmds |-> SubSeq(r.cmds, 1, accepted)]

\* reset_optimization when the actuator accepts only the first `accepted` of
\* its commands: the assignments precede the try block, the exception of the
\* first rejected command is swallowed and skips the commands after it
reset_optimization_outcome(idx, pst, tl, ph, accepted) ==
  LET r == reset_optimization(ph)
  IN [index |-> r.index,
      start |-> r.start,
      signal |-> IF accepted >= 1 THEN r.signal ELSE tl,
      cmds |-> SubSeq(r.cmds, 1, accepted)]

\* reset_optimization called on the optimizer, in any state; every command is
\* rejected while no simulation is connected
ResetOptimization ==
  /\ resets < MaxResets
  /\ resets' = resets + 1
  /\ \E accepted \in 0..2 :
       /\ ~simulation_running => accepted = 0
       /\ \E r \in {reset_optimization_outcome(current_phase_index, phase_start_time,
                                               traciPhase, phases, accepted)} :
            /\ current_phase_index' = r.index
            /\ phase_start_time' = r.start
            /\ traciPhase' = r.signal
            /\ commands' = r.cmds
            /\ signal_since' = IF r.signal # traciPhase THEN traciTime ELSE signal_since
            /\ step_result' = [kind |-> "reset_optimization", accepted |-> accepted,
                               index_before |-> current_phase_index,
                               start_before |-> phase_start_time]
  /\ UNCHANGED <<traciStopped, emergency_wait, traciTime, traciVehicles, traciEmergency, phases, density_history,
                 simulation_running, simulation_time, optimization_history, recorded,
                 traciVehicleList, yield_passes, traciFault, run, feedChanges, ticks,
                 starts>>

\* reset_simulation with a successful restart
ResetSimulation ==
  /\ starts < MaxStarts
  /\ LET r == reset_optimization(phases)
     IN /\ simulation_running' = TRUE
        /\ simulation_time' = 0
        /\ traciTime' = 0
        /\ traciVehicles' = EmptyRoad
        /\ traciEmergency' = EmptyRoad
        /\ optimization_history' = << >>
        /\ phase_start_time' = r.start
        /\ current_phase_index' = r.index
        /\ traciPhase' = r.signal
        /\ commands' = r.cmds
  /\ signal_since' = 0
  /\ starts' = starts + 1
  /\ step_result' = [kind |-> "reset", ok |-> TRUE]
  /\ traciVehicleList' = << >>
  /\ traciStopped' = {}
  /\ emergency_wait' = 0
  /\ UNCHANGED <<resets, phases, density_history, recorded, yield_passes, traciFault, run,
                 feedChanges, ticks>>

\* AppendEntry without the eviction of the oldest entry
AppendEntry_NoEviction(h, e) == Append(h, e)

AppendEntry(h, e) ==
  LET h1 == Append(h, e)
  IN IF Len(h1) > sim_max_history_length THEN Tail(h1) ELSE h1

\* step_simulation: one controller tick that advances the simulation by
\* step_length seconds, within the explored number of ticks and simulated
\* time, on one of the given feeds
Tick(step_length, tick_limit, time_limit, feeds) ==
  /\ simulation_running
  /\ CalledStep
  /\ traciFault = NoFault
  /\ ticks < tick_limit
  /\ traciTime + step_length <= time_limit
  /\ \E feed \in feeds :
     \* optimize_traffic_lights: recommendations (one recording), then the decision
     \E h1 \in {get_all_densities(density_history, feed.veh)} :
     \E prio \in {[a \in ApproachSet |-> get_priority_score(h1, feed.veh, feed.em, a)]} :
     \E opt \in {optimize_traffic_lights(traciPhase, current_phase_index, phases,
                                         phase_start_time, prio, traciTime + step_length)} :
     \* handle_emergency_vehicles
     \E emr \in {handle_emergency_vehicles(opt.signal, feed.em)} :
       LET now == traciTime + step_length
           veh == feed.veh
           em == feed.em
           \* get_traffic_flow_metrics: health metrics, then recommendations
           h3 == get_all_densities(get_all_densities(h1, veh), veh)
       IN /\ traciTime' = now
          /\ traciVehicles' = veh
          /\ traciEmergency' = em
          /\ feedChanges' = feed.changes
          /\ simulation_time' = now
          /\ current_phase_index' = opt.index
          /\ phases' = opt.phases
          /\ phase_start_time' = opt.start
          /\ traciPhase' = emr.signal
          /\ density_history' = h3
          /\ recorded' = [a \in ApproachSet |->
                            recorded[a] \o << calculate_density(veh, a),
                                              calculate_density(veh, a),
                                              calculate_density(veh, a) >>]
          /\ commands' = opt.cmds \o emr.cmds
          /\ signal_since' = IF opt.signal # traciPhase \/ emr.signal # opt.signal
                             THEN now ELSE signal_since
          /\ optimization_history' = AppendEntry(optimization_history, now)
          /\ step_result' =
               [kind |-> "step", error |-> "",
                timestamp |-> now,
                optimization |-> [current_phase |-> opt.index],
                emergency |-> [emergency_detected |-> emr.emergency_detected,
                               action_taken |-> emr.action_taken,
                               affected_approach |-> emr.affected_approach],
                decision |-> [phase |-> opt.info.phase,
                              duration |-> opt.info.duration,
                              time_in_phase |-> opt.info.time_in_phase,
                              held |-> now - signal_since,
                              preempt |-> opt.preempt,
                              timeout |-> opt.timeout,
                              index_before |-> current_phase_index,
                              start_before |-> phase_start_time,
                              phases_before |-> phases,
                              priorities |-> prio]]
  /\ ticks' = ticks + 1
  /\ run' = AfterStep
  /\ emergency_wait' = IF /\ traciPhase' # 2
                          /\ \/ traciEmergency'["east2center"] > 0
                             \/ traciEmergency'["west2center"] > 0
                       THEN emergency_wait + 1 ELSE 0
  /\ UNCHANGED <<traciStopped, resets, simulation_running, traciVehicleList, yield_passes, traciFault, starts>>

\* step_simulation on roads whose load may change
Step == Tick(StepLength, MaxTicks, MaxTime, FeedAfterStep(MaxFeedChanges, ApproachLoads))

\* The controller in operation: started once, then ticked.
Next ==
  \/ StartSimulation
  \/ Step

Spec == Init /\ [][Next]_vars

\* The simulator with its whole life cycle: start, ticks, stop, reset.
NextLifecycle ==
  \/ StartSimulation
  \/ StopSimulation
  \/ ResetSimulation
  \/ ResetOptimization
  \/ Step

SpecLifecycle == Init /\ [][NextLifecycle]_vars

\* The controller in operation until the optimizer is reset, which the
\* actuator may reject; the ticks come before the first reset.
NextReset ==
  \/ StartSimulation
  \/ resets = 0 /\ Step
  \/ ResetOptimization

SpecReset == Init /\ [][NextReset]_vars

\* ------------------------------------------------- DensityAnalyzer alone
\* The vehicle number the analyzer's next query sees on one approach differs
\* from the last one (simulation steps taken between two calls).
TrafficChanges ==
  /\ simulation_running
  /\ \E feed \in FeedAfterStep(MaxAnalyzerFeedChanges, CountLoads) :
       /\ feed.changes = feedChanges + 1
       /\ traciVehicles' = feed.veh
       /\ traciEmergency' = feed.em
       /\ feedChanges' = feed.changes
  /\ UNCHANGED <<traciStopped, emergency_wait, resets, traciTime, traciPhase, phase_start_time, current_phase_index, phases,
                 density_history, simulation_running, simulation_time,
                 optimization_history, step_result, commands, recorded, signal_since,
                 traciVehicleList, yield_passes, traciFault, run, ticks, starts>>

\* DensityAnalyzer.get_all_densities called on its own
GetAllDensities ==
  /\ \A a \in ApproachSet : Len(recorded[a]) < MaxRecordings
  /\ density_history' = get_all_densities(density_history, traciVehicles)
  /\ recorded' = [a \in ApproachSet |->
                    Append(recorded[a], calculate_density(traciVehicles, a))]
  /\ step_result' = [kind |-> "densities",
                     densities |-> [a \in ApproachSet |->
                                      calculate_density(traciVehicles, a)]]
  /\ commands' = << >>
  /\ UNCHANGED <<traciStopped, emergency_wait, resets, traciTime, traciVehicles, traciEmergency, traciPhase, phase_start_time,
                 current_phase_index, phases, simulation_running, simulation_time,
                 optimization_history, signal_since, traciVehicleList, yield_passes,
                 traciFault, run, feedChanges, ticks, starts>>

NextAnalyzer ==
  \/ StartSimulation
  \/ TrafficChanges
  \/ GetAllDensities

SpecAnalyzer == Init /\ [][NextAnalyzer]_vars

\* ------------------------------------------------------ aggregator alone
\* a feed query of one approach starts to raise
FeedFails ==
  /\ simulation_running
  /\ traciFault = NoFault
  /\ feedChanges < MaxAnalyzerFeedChanges
  /\ traciFault' \in Faults
  /\ feedChanges' = feedChanges + 1
  /\ UNCHANGED <<traciStopped, emergency_wait, resets, traciTime, traciVehicles, traciEmergency, traciPhase, phase_start_time,
                 current_phase_index, phases, density_history, simulation_running,
                 simulation_time, optimization_history, step_result, commands, recorded,
                 signal_since, traciVehicleList, yield_passes, run, ticks, starts>>

\* the feed answers every query again
FeedRecovers ==
  /\ traciFault # NoFault
  /\ traciFault' = NoFault
  /\ UNCHANGED <<traciStopped, emergency_wait, resets, traciTime, traciVehicles, traciEmergency, traciPhase, phase_start_time,
                 current_phase_index, phases, density_history, simulation_running,
                 simulation_time, optimization_history, step_result, commands, recorded,
                 signal_since, traciVehicleList, yield_passes, run, feedChanges, ticks,
                 starts>>

\* DensityAnalyzer.get_optimization_recommendations called on its own
GetOptimizationRecommendations ==
  /\ simulation_running
  /\ \A a \in ApproachSet : Len(recorded[a]) < MaxAggregations
  /\ \E r \in {get_optimization_recommendations(density_history, traciVehicles,
                                                traciEmergency, traciFault)} :
     \E green_time \in r.recommended_green_times :
       /\ density_history' = r.history
       /\ recorded' = [a \in ApproachSet |-> Append(recorded[a], r.densities[a])]
       /\ step_result' =
            [kind |-> "recommendations",
             raised |-> r.raised,
             fault |-> traciFault,
             seen |-> [veh |-> traciVehicles, em |-> traciEmergency],
             output |-> IF r.raised THEN [raised |-> TRUE]
                        ELSE [densities |-> r.densities,
                              priorities |-> r.priorities,
                              recommended_approach |-> r.recommended_approach,
                              recommended_green_time |-> green_time,
                              total_vehicles |-> r.total_vehicles,
                              emergency_vehicles |-> r.emergency_vehicles]]
  /\ commands' = << >>
  /\ UNCHANGED <<traciStopped, emergency_wait, resets, traciTime, traciVehicles, traciEmergency, traciPhase, phase_start_time,
                 current_phase_index, phases, simulation_running, simulation_time,
                 optimization_history, signal_since, traciVehicleList, yield_passes,
                 traciFault, run, feedChanges, ticks, starts>>

\* the vehicle numbers of all four approaches at the analyzer's next query:
\* any combination of small numbers, once, at any moment
TrafficRedistributes ==
  /\ simulation_running
  /\ feedChanges = 0
  /\ \E veh \in [ApproachSet -> 0..MaxMixedCount] :
       /\ veh # traciVehicles
       /\ traciVehicles' = veh
  /\ traciEmergency' = EmptyRoad
  /\ feedChanges' = feedChanges + 1
  /\ UNCHANGED <<traciStopped, emergency_wait, resets, traciTime, traciPhase, phase_start_time, current_phase_index, phases,
                 density_history, simulation_running, simulation_time,
                 optimization_history, step_result, commands, recorded, signal_since,
                 traciVehicleList, yield_passes, traciFault, run, ticks, starts>>

NextAggregator ==
  \/ StartSimulation
  \/ TrafficChanges
  \/ FeedFails
  \/ FeedRecovers
  \/ GetOptimizationRecommendations

SpecAggregator == Init /\ [][NextAggregator]_vars

\* DensityAnalyzer.get_density_trend(approach)
GetDensityTrend ==
  /\ \E a \in ApproachSet :
       step_result' = [kind |-> "trend", approach |-> a,
                       trend |-> get_density_trend(density_history[a])]
  /\ commands' = << >>
  /\ UNCHANGED <<traciStopped, emergency_wait, resets, traciTime, traciVehicles, traciEmergency, traciPhase, phase_start_time,
                 current_phase_index, phases, density_history, simulation_running,
                 simulation_time, optimization_history, recorded, signal_since,
                 traciVehicleList, yield_passes, traciFault, run, feedChanges, ticks,
                 starts>>

\* The aggregator and the trend on roads that carry any mix of vehicle numbers.
NextRecommendation ==
  \/ StartSimulation
  \/ TrafficRedistributes
  \/ GetOptimizationRecommendations
  \/ GetDensityTrend

SpecRecommendation == Init /\ [][NextRecommendation]_vars

\* ------------------------------------------------- congestion level alone
\* the vehicle number of one approach becomes any number up to MaxCount
VehicleNumberChanges ==
  /\ simulation_running
  /\ feedChanges < MaxAnalyzerFeedChanges
  /\ \E a \in ApproachSet : \E c \in 0..MaxCount :
       /\ c # traciVehicles[a]
       /\ traciVehicles' = [traciVehicles EXCEPT ![a] = c]
  /\ feedChanges' = feedChanges + 1
  /\ UNCHANGED <<traciStopped, emergency_wait, resets, traciTime, traciEmergency, traciPhase, phase_start_time,
                 current_phase_index, phases, density_history, simulation_running,
                 simulation_time, optimization_history, step_result, commands, recorded,
                 signal_since, traciVehicleList, yield_passes, traciFault, run, ticks,
                 starts>>

\* DensityAnalyzer.get_congestion_level(approach)
GetCongestionLevel ==
  /\ \E a \in ApproachSet :
       step_result' = [kind |-> "congestion", approach |-> a,
                       count |-> calculate_density(SeenVehicles(traciVehicles, traciFault), a),
                       level |-> get_congestion_level(traciVehicles, traciFault, a)]
  /\ commands' = << >>
  /\ UNCHANGED <<traciStopped, emergency_wait, resets, traciTime, traciVehicles, traciEmergency, traciPhase, phase_start_time,
                 current_phase_index, phases, density_history, simulation_running,
                 simulation_time, optimization_history, recorded, signal_since,
                 traciVehicleList, yield_passes, traciFault, run, feedChanges, ticks,
                 starts>>

NextCongestion ==
  \/ StartSimulation
  \/ VehicleNumberChanges
  \/ GetCongestionLevel

SpecCongestion == Init /\ [][NextCongestion]_vars

\* -------------------------------------------------- ticks on a failing feed
\* step_simulation while a feed query raises: the exception leaves
\* get_optimization_recommendations (number query: inside optimize_traffic_lights,
\* before any decision) or get_system_health_metrics (ids query alone: inside
\* get_traffic_flow_metrics, after the decision and the emergency check), and
\* step_simulation returns {"error": ...} without an entry in its history.
StepFails ==
  /\ simulation_running
  /\ CalledStep
  /\ traciFault # NoFault
  /\ ticks < MaxTicks
  /\ traciTime + StepLength <= MaxTime
  /\ \E now \in {traciTime + StepLength} :
     \E r \in {get_optimization_recommendations(density_history, traciVehicles,
                                                traciEmergency, traciFault)} :
     \E opt \in {IF r.raised
                 THEN [index |-> current_phase_index, phases |-> phases,
                       start |-> phase_start_time, signal |-> traciPhase, cmds |-> << >>]
                 ELSE optimize_traffic_lights(traciPhase, current_phase_index, phases,
                                              phase_start_time, r.priorities, now)} :
     \E emr \in {IF r.raised
                 THEN [signal |-> opt.signal, cmds |-> << >>]
                 ELSE handle_emergency_vehicles(
                        opt.signal, SeenEmergency(traciEmergency, traciFault))} :
       /\ traciTime' = now
       /\ simulation_time' = now
       /\ current_phase_index' = opt.index
       /\ phases' = opt.phases
       /\ phase_start_time' = opt.start
       /\ traciPhase' = emr.signal
       /\ commands' = opt.cmds \o emr.cmds
       /\ signal_since' = IF emr.signal # traciPhase THEN now ELSE signal_since
       /\ density_history' =
            IF r.raised THEN r.history
            ELSE get_all_densities(r.history, SeenVehicles(traciVehicles, traciFault))
       /\ recorded' = [a \in ApproachSet |->
                         recorded[a] \o (IF r.raised THEN << r.densities[a] >>
                                         ELSE << r.densities[a], r.densities[a] >>)]
       /\ step_result' = [kind |-> "step_error", error |-> "TraCIException",
                          timestamp |-> now]
  /\ ticks' = ticks + 1
  /\ run' = AfterStep
  /\ UNCHANGED <<traciStopped, emergency_wait, resets, traciVehicles, traciEmergency, simulation_running, optimization_history,
                 traciVehicleList, yield_passes, traciFault, feedChanges, starts>>

\* durations run_simulation_for_duration is called with
RunDurations == {0, StepLength, 2 * StepLength}

\* run_simulation_for_duration(duration), up to the head of its loop
RunBegins ==
  /\ simulation_running
  /\ run.pc = "idle"
  /\ \E duration \in RunDurations :
       run' = [pc |-> "loop", target |-> simulation_time + duration,
               steps |-> 0, errors |-> 0]
  /\ step_result' = [kind |-> "run_called"]
  /\ commands' = << >>
  /\ UNCHANGED <<traciStopped, emergency_wait, resets, traciTime, traciVehicles, traciEmergency, traciPhase, phase_start_time,
                 current_phase_index, phases, density_history, simulation_running,
                 simulation_time, optimization_history, recorded, signal_since,
                 traciVehicleList, yield_passes, traciFault, feedChanges, ticks, starts>>

\* run_simulation_for_duration, lines 137-147: the step result is examined
RunChecks ==
  /\ run.pc = "check"
  /\ IF step_result.kind = "step_error"
     THEN \* "error" in step_result: print and break, then return results
          /\ step_result' = [kind |-> "run", raised |-> FALSE, steps |-> run.steps,
                             errors |-> run.errors + 1, end_time |-> run.target]
          /\ run' = NoRun
     ELSE IF "optimization_applied" \in DOMAIN step_result.optimization
     THEN /\ run' = [run EXCEPT !.pc = "loop", !.steps = @ + 1]
          /\ UNCHANGED step_result
     ELSE \* step_result["optimization"]["optimization_applied"]: KeyError
          /\ step_result' = [kind |-> "run", raised |-> TRUE, steps |-> run.steps + 1,
                             errors |-> run.errors, end_time |-> run.target]
          /\ run' = NoRun
  /\ UNCHANGED <<traciStopped, emergency_wait, resets, traciTime, traciVehicles, traciEmergency, traciPhase, phase_start_time,
                 current_phase_index, phases, density_history, simulation_running,
                 simulation_time, optimization_history, commands, recorded, signal_since,
                 traciVehicleList, yield_passes, traciFault, feedChanges, ticks, starts>>

\* run_simulation_for_duration: the loop condition is false, results are returned
RunReturns ==
  /\ run.pc = "loop"
  /\ ~(simulation_time < run.target /\ simulation_running)
  /\ step_result' = [kind |-> "run", raised |-> FALSE, steps |-> run.steps,
                     errors |-> run.errors, end_time |-> run.target]
  /\ run' = NoRun
  /\ UNCHANGED <<traciStopped, emergency_wait, resets, traciTime, traciVehicles, traciEmergency, traciPhase, phase_start_time,
                 current_phase_index, phases, density_history, simulation_running,
                 simulation_time, optimization_history, commands, recorded, signal_since,
                 traciVehicleList, yield_passes, traciFault, feedChanges, ticks, starts>>

\* The controller on a feed that may fail, ticked one by one or by
\* run_simulation_for_duration.
NextFaults ==
  \/ StartSimulation
  \/ FeedFails
  \/ FeedRecovers
  \/ Step
  \/ StepFails
  \/ RunBegins
  \/ RunChecks
  \/ RunReturns

SpecFaults == Init /\ [][NextFaults]_vars

\* ------------------------------------------- the simulator's history
\* step_simulation on roads whose load stays as it is
StepOnSteadyRoads ==
  Tick(StepLength, MaxLongTicks, MaxLongTicks * StepLength,
       {[veh |-> traciVehicles, em |-> traciEmergency, changes |-> feedChanges]})

\* step_simulation while the simulation is not running: an error result and
\* nothing else
StepNotRunning ==
  /\ ~simulation_running
  /\ run.pc = "idle"
  /\ step_result' = [kind |-> "step_error", error |-> "Simulation not running",
                     timestamp |-> simulation_time]
  /\ commands' = << >>
  /\ UNCHANGED <<traciStopped, emergency_wait, resets, traciTime, traciVehicles, traciEmergency,
                 traciPhase, phase_start_time, current_phase_index, phases,
                 density_history, simulation_running, simulation_time,
                 optimization_history, recorded, signal_since, traciVehicleList,
                 yield_passes, traciFault, run, feedChanges, ticks, starts>>

\* The simulator over a long run on steady roads, with ticks before the
\* start, and with either failed ticks or a reset on the way.
NextHistory ==
  \/ StartSimulation
  \/ StepOnSteadyRoads
  \/ StepNotRunning
  \/ feedChanges = 0 /\ ResetSimulation
  \/ starts = 1 /\ FeedFails
  \/ FeedRecovers
  \/ StepFails

SpecHistory == Init /\ [][NextHistory]_vars

\* ------------------------------------------------ conflict resolver alone
Exits == {"center2north", "center2south", "center2east", "center2west"}
Gaps == {YieldDistance - 1, YieldDistance}

\* A vehicle as the resolver's queries describe it: on its approach, short of
\* the stop line by one of Gaps, on the junction's internal edge (not an edge
\* of the route), or on the last edge of its route.
VehicleSituations ==
  {[road |-> a, route |-> <<a, e>>, gap |-> g] : a \in ApproachSet, e \in Exits, g \in Gaps}
  \cup {[road |-> ":center_0", route |-> <<"north2center", "center2east">>,
         gap |-> YieldDistance - 1],
        [road |-> "center2south", route |-> <<"north2center", "center2south">>,
         gap |-> YieldDistance - 1]}

\* one more vehicle is in the network at the next query
VehicleArrives ==
  /\ simulation_running
  /\ Len(traciVehicleList) < MaxVehicles
  /\ \E v \in VehicleSituations :
       /\ traciVehicleList' =
            Append(traciVehicleList,
                   [id |-> Len(traciVehicleList) + 1, road |-> v.road,
                    route |-> v.route, gap |-> v.gap])
       /\ traciVehicles' =
            IF v.road \in ApproachSet
            THEN [traciVehicles EXCEPT ![v.road] = @ + 1]
            ELSE traciVehicles
  /\ UNCHANGED <<traciStopped, emergency_wait, resets, traciTime, traciEmergency, traciPhase, phase_start_time,
                 current_phase_index, phases, density_history, simulation_running,
                 simulation_time, optimization_history, step_result, commands, recorded,
                 signal_since, yield_passes, traciFault, run, feedChanges, ticks, starts>>

\* a through vehicle the last pass made another vehicle yield to crosses the
\* junction: it leaves its approach for the next edge of its route
OncomingVehicleMovesOn ==
  /\ simulation_running
  /\ step_result.kind = "yielding"
  /\ \E i \in 1..Len(traciVehicleList) :
       LET v == traciVehicleList[i]
       IN /\ v.road \in ApproachSet
          /\ v.id \notin traciStopped
          /\ \E k \in 1..Len(step_result.yielding_actions) :
               step_result.yielding_actions[k].yields_to = v.id
          /\ traciVehicleList' =
               [traciVehicleList EXCEPT ![i] =
                  [v EXCEPT !.road = v.route[RouteIndex(v.route, v.road) + 1],
                            !.gap = YieldDistance]]
          /\ traciVehicles' = [traciVehicles EXCEPT ![v.road] = Max(0, @ - 1)]
  /\ UNCHANGED <<traciStopped, emergency_wait, resets, traciTime, traciEmergency, traciPhase,
                 phase_start_time, current_phase_index, phases, density_history,
                 simulation_running, simulation_time, optimization_history, step_result,
                 commands, recorded, signal_since, yield_passes, traciFault, run,
                 feedChanges, ticks, starts>>

\* TrafficOptimizer.manage_junction_yielding: one pass of the conflict resolver
ManageJunctionYielding ==
  /\ simulation_running
  /\ yield_passes < MaxPasses
  /\ \E r \in {manage_junction_yielding(traciVehicleList)} :
       /\ commands' = r.cmds
       /\ traciPhase' = SignalAfter(traciPhase, r.cmds)
       /\ traciStopped' = StoppedAfter(traciStopped, r.cmds)
       /\ step_result' = [kind |-> "yielding", yielding_actions |-> r.yielding_actions,
                          applied |-> r.applied, seen |-> traciVehicleList]
  /\ yield_passes' = yield_passes + 1
  /\ UNCHANGED <<emergency_wait, resets, traciTime, traciVehicles, traciEmergency, phase_start_time,
                 current_phase_index, phases, density_history, simulation_running,
                 simulation_time, optimization_history, recorded, signal_since,
                 traciVehicleList, traciFault, run, feedChanges, ticks, starts>>

NextYielding ==
  \/ StartSimulation
  \/ VehicleArrives
  \/ OncomingVehicleMovesOn
  \/ ManageJunctionYielding

SpecYielding == Init /\ [][NextYielding]_vars

\* ------------------------------------------------------ one-second steps
\* <<vehicles, emergency vehicles among them>> on an approach that is empty,
\* loaded with ordinary traffic, or loaded with one emergency vehicle in it
EmergencyLoads == {<<0, 0>>, <<HighCount, 0>>, <<HighCount, 1>>}

\* step_simulation with the simulation advancing FineStep seconds per step, on
\* roads where ordinary and emergency traffic may appear
StepEverySecond ==
  Tick(FineStep, MaxFineTicks, MaxFineTicks * FineStep,
       FeedAfterStep(MaxAnalyzerFeedChanges, EmergencyLoads))

NextSeconds ==
  \/ StartSimulation
  \/ StepEverySecond

SpecSeconds == Init /\ [][NextSeconds]_vars

\* <<vehicles, emergency vehicles among them>> on an approach that is empty or
\* heavily loaded with ordinary traffic
HeavyLoads == {<<0, 0>>, <<HeavyCount, 0>>}

\* step_simulation with the simulation advancing FineStep seconds per step, on
\* roads that never carry an emergency vehicle and whose load changes within
\* the first MaxArrivalTicks ticks only
StepWithoutEmergency ==
  Tick(FineStep, MaxCycleTicks, MaxCycleTicks * FineStep,
       FeedAfterStep(IF ticks < MaxArrivalTicks THEN MaxAnalyzerFeedChanges ELSE 0,
                     HeavyLoads))

NextCycle ==
  \/ StartSimulation
  \/ StepWithoutEmergency

SpecCycle == Init /\ [][NextCycle]_vars

\* ------------------------------------------------------------------ claims
LastN(s, n) == SubSeq(s, Len(s) - n + 1, Len(s))

IsTick == step_result.kind = "step"

\* C1: the controller's phase index is always one of 0,1,2,3, and a tick changes
\* it only from p to (p + 1) mod 4, by a timeout or preemptive transition,
\* unless an emergency override acted in that tick.
C1_PhaseIndexCyclic ==
  /\ current_phase_index \in {0, 1, 2, 3}
  /\ [][/\ current_phase_index' \in {0, 1, 2, 3}
        /\ ticks' = ticks + 1 =>
             \/ current_phase_index' = current_phase_index
             \/ /\ step_result'.decision.preempt \/ step_result'.decision.timeout
                /\ current_phase_index' = (current_phase_index + 1) % 4
             \/ step_result'.emergency.action_taken]_vars

\* C1 witness: a timeout or preemptive transition has wrapped the index from 3 to 0
C1_Witness ==
  /\ IsTick
  /\ step_result.decision.preempt \/ step_result.decision.timeout
  /\ step_result.decision.index_before = 3
  /\ current_phase_index = 0

\* C2: the durations stored for the two green phases are within [15, 90]
C2_GreenDurationBounded ==
  \A p \in {0, 2} : 15 <= phases[p] /\ phases[p] <= 90

\* C2 witness: a tick has just advanced into green phase 2 with an east/west
\* priority above 200 (an emergency vehicle), and the stored duration is 90
C2_Witness ==
  /\ IsTick
  /\ step_result.decision.timeout
  /\ current_phase_index = 2
  /\ step_result.decision.priorities["east2center"] >= 200 * PriorityScale
  /\ phases[2] = 90

\* C6: each approach's history is the last min(n, 50) of the n samples recorded
\* for it, in recording order, and never holds more than 50
C6_HistoryIsLast50 ==
  \A a \in ApproachSet :
    /\ Len(density_history[a]) <= 50
    /\ density_history[a] =
         LastN(recorded[a], IF Len(recorded[a]) <= 50 THEN Len(recorded[a]) ELSE 50)

\* C6 witness: more than 50 samples were recorded, the oldest ones are gone and
\* the retained ones are not all equal
C6_Witness ==
  \E a \in ApproachSet :
    /\ Len(recorded[a]) > 50
    /\ recorded[a][1] # recorded[a][Len(recorded[a])]
    /\ density_history[a][1] # density_history[a][50]

\* the larger of the two priorities of the approaches green phase p serves
ServedPriority(prio, p) ==
  IF p = 0
  THEN (IF prio["north2center"] >= prio["south2center"]
        THEN prio["north2center"] ELSE prio["south2center"])
  ELSE (IF prio["east2center"] >= prio["west2center"]
        THEN prio["east2center"] ELSE prio["west2center"])

SwitchCommands == SelectSeq(commands, LAMBDA c : c.by = "switch" /\ c.cmd = "setPhase")
EmergencyCommands == SelectSeq(commands, LAMBDA c : c.by = "emergency" /\ c.cmd = "setPhase")
EmergencyDurations ==
  SelectSeq(commands, LAMBDA c : c.by = "emergency" /\ c.cmd = "setPhaseDuration")

\* C3: while the signal shows a green phase, the preemptive switch fires in a
\* tick if and only if the signal has shown that green phase for at least 15
\* seconds (however it was entered) and waitingPriority > currentPriority * 1.5.
C3_PreemptIffHeld15 ==
  (IsTick /\ step_result.decision.phase \in {0, 2}) =>
    LET d == step_result.decision
        current == ServedPriority(d.priorities, d.phase)
        waiting == ServedPriority(d.priorities, 2 - d.phase)
    IN d.preempt <=> (d.held >= 15 /\ 2 * waiting > 3 * current)

\* C4: an emergency override sets the controller's phase index to the green
\* phase of the approach's axis, commands a duration between 45 and 60 seconds
\* and resets the phase start timestamp to the tick time.
C4_OverrideSetsControllerState ==
  (IsTick /\ step_result.emergency.action_taken) =>
    /\ current_phase_index =
         (IF step_result.emergency.affected_approach \in {"north2center", "south2center"}
          THEN 0 ELSE 2)
    /\ Len(EmergencyDurations) = 1
    /\ EmergencyDurations[1].arg >= 45 /\ EmergencyDurations[1].arg <= 60
    /\ phase_start_time = step_result.timestamp

\* C5: in one tick the emergency check considers only the first approach, in
\* the order north, south, east, west, that carries an emergency vehicle, and
\* commands at most one phase: the green phase of that approach's axis.
C5_AtMostOneOverride ==
  IsTick =>
    LET first == IF traciEmergency["north2center"] > 0 THEN "north2center"
                 ELSE IF traciEmergency["south2center"] > 0 THEN "south2center"
                 ELSE IF traciEmergency["east2center"] > 0 THEN "east2center"
                 ELSE IF traciEmergency["west2center"] > 0 THEN "west2center"
                 ELSE "None"
    IN /\ step_result.emergency.affected_approach = first
       /\ step_result.emergency.emergency_detected <=> first # "None"
       /\ Len(EmergencyCommands) <= 1
       /\ Len(EmergencyCommands) = 1 <=> step_result.emergency.action_taken
       /\ Len(EmergencyCommands) = 1 =>
            EmergencyCommands[1].arg =
              (IF first \in {"north2center", "south2center"} THEN 0 ELSE 2)

\* C5 witness: emergency vehicles on north and on east in the same tick, and
\* the override applied is the one for north
C5_Witness ==
  /\ IsTick
  /\ traciEmergency["north2center"] > 0
  /\ traciEmergency["east2center"] > 0
  /\ step_result.emergency.action_taken
  /\ Len(EmergencyCommands) = 1
  /\ traciPhase = 0

\* C7: in a tick with no emergency and no preemptive switch the state machine
\* advances if and only if now - phaseStartTimestamp >= the duration of the
\* phase the controller is in; otherwise index, timestamp and durations stay.
C7_TimeoutRule ==
  (IsTick /\ ~step_result.emergency.emergency_detected /\ ~step_result.decision.preempt) =>
    LET d == step_result.decision
        due == step_result.timestamp - d.start_before >= d.phases_before[d.index_before]
    IN IF due
       THEN current_phase_index = (d.index_before + 1) % 4
       ELSE /\ current_phase_index = d.index_before
            /\ phase_start_time = d.start_before
            /\ phases = d.phases_before

\* C8: a preemptive switch fired while the signal shows green g commands g + 1
C8_PreemptCommandsYellow ==
  (IsTick /\ step_result.decision.preempt) =>
    /\ Len(SwitchCommands) = 1
    /\ SwitchCommands[1].arg = step_result.decision.phase + 1

\* C9: the phase start timestamp never decreases, and after every change of the
\* signal's phase it equals the time of the tick in which the change happened
C9_StartTimestampMonotone ==
  [][/\ phase_start_time' >= phase_start_time
     /\ (ticks' = ticks + 1 /\ traciPhase' # traciPhase) =>
          phase_start_time' = traciTime']_vars

\* C10: within one tick the emergency check comes before the normal/preemptive
\* transition, and a tick in which the emergency check forces a phase applies no
\* normal/preemptive transition.
C10_EmergencyFirst ==
  IsTick =>
    /\ step_result.emergency.action_taken =>
         ~(step_result.decision.preempt \/ step_result.decision.timeout)
    /\ \A i, j \in 1..Len(commands) :
         (commands[i].by = "switch" /\ commands[j].by = "emergency") => j < i

\* ---- conflict resolver
Yielded(i) == \E k \in 1..Len(commands) :
                 /\ commands[k].cmd = "setSpeed"
                 /\ commands[k].arg = 0
                 /\ commands[k].veh = step_result.seen[i].id

\* the edge after the vehicle's road in its route, "none" if there is none
NextEdgeOf(v) ==
  IF \E i \in 1..(Len(v.route) - 1) : v.route[i] = v.road
  THEN v.route[1 + CHOOSE i \in 1..(Len(v.route) - 1) : v.route[i] = v.road]
  ELSE "none"

LeftPairs == {<<"north2center", "center2east">>, <<"south2center", "center2west">>,
              <<"east2center", "center2south">>, <<"west2center", "center2north">>}
ThroughPairs == {<<"north2center", "center2south">>, <<"south2center", "center2north">>,
                 <<"east2center", "center2west">>, <<"west2center", "center2east">>}
OppositePairs == {<<"north2center", "south2center">>, <<"south2center", "north2center">>,
                  <<"east2center", "west2center">>, <<"west2center", "east2center">>}

\* C11: in one pass of the conflict resolver a vehicle is commanded to speed 0
\* if and only if it is less than 25 units short of its stop line, its
\* (approach, next edge) pair is a left turn, and some vehicle less than 25
\* units short of its stop line makes a through movement from the opposite
\* approach; a through-moving vehicle is never commanded; nothing but speed 0
\* is commanded.
C11_YieldIffOncomingThrough ==
  step_result.kind = "yielding" =>
    /\ \A i \in 1..Len(step_result.seen) :
         LET v == step_result.seen[i]
         IN /\ Yielded(i) <=>
                 /\ v.gap < 25
                 /\ <<v.road, NextEdgeOf(v)>> \in LeftPairs
                 /\ \E j \in 1..Len(step_result.seen) :
                      LET w == step_result.seen[j]
                      IN /\ w.gap < 25
                         /\ <<v.road, w.road>> \in OppositePairs
                         /\ <<w.road, NextEdgeOf(w)>> \in ThroughPairs
            /\ <<v.road, NextEdgeOf(v)>> \in ThroughPairs => ~Yielded(i)
    /\ \A k \in 1..Len(commands) : commands[k].cmd = "setSpeed" /\ commands[k].arg = 0

\* C11 witness: a pass commanded the left-turning vehicle on the north approach
\* to yield to a through vehicle on the south approach, and only it
C11_Witness ==
  /\ step_result.kind = "yielding"
  /\ Len(step_result.seen) = 2
  /\ step_result.seen[1].road = "north2center"
  /\ step_result.seen[1].route = <<"north2center", "center2east">>
  /\ step_result.seen[2].road = "south2center"
  /\ step_result.seen[2].route = <<"south2center", "center2north">>
  /\ Yielded(1)
  /\ ~Yielded(2)
  /\ Len(commands) = 1

\* C12: every controller tick runs the conflict resolver once
C12_ResolverRunsEveryTick ==
  [][ticks' = ticks + 1 => yield_passes' = yield_passes + 1]_vars

\* C13: a pass of the conflict resolver leaves the phase index, the phase start
\* timestamp, every phase duration and the phase the signal shows unchanged,
\* and issues no setPhase or setPhaseDuration command
C13_ResolverKeepsSignal ==
  [][yield_passes' # yield_passes =>
       /\ current_phase_index' = current_phase_index
       /\ phase_start_time' = phase_start_time
       /\ phases' = phases
       /\ traciPhase' = traciPhase
       /\ \A k \in 1..Len(commands') :
            commands'[k].cmd \notin {"setPhase", "setPhaseDuration"}]_vars

\* C13 witness: a pass has issued a yield command
C13_Witness ==
  /\ step_result.kind = "yielding"
  /\ step_result.applied
  /\ yield_passes > 0
  /\ Len(commands) > 0

\* ---- aggregator
\* C14: when a feed query for an approach fails during aggregation, the
\* aggregator does not raise and its result gives that approach density 0, no
\* emergency vehicle and no vehicles.
C14_AggregatorDegrades ==
  (step_result.kind = "recommendations" /\ step_result.fault.approach \in ApproachSet) =>
    LET a == step_result.fault.approach
        Sum(f) == f["north2center"] + f["south2center"] + f["east2center"] + f["west2center"]
    IN /\ ~step_result.raised
       /\ step_result.output.densities[a] = 0
       /\ step_result.output.total_vehicles =
            Sum([b \in ApproachSet |-> IF b = a THEN 0 ELSE step_result.seen.veh[b]])
       /\ step_result.output.emergency_vehicles =
            Sum([b \in ApproachSet |-> IF b = a THEN 0 ELSE step_result.seen.em[b]])

\* C16: two consecutive calls of the aggregator to which the feed returns the
\* same values return identical outputs, for every prior history: the same
\* densities, priorities and recommended approach (the recommended green time
\* is computed from the densities and the recommended approach).
C16_AggregatorIdempotent ==
  [][(/\ step_result.kind = "recommendations"
      /\ step_result'.kind = "recommendations"
      /\ \A a \in ApproachSet : Len(recorded'[a]) = Len(recorded[a]) + 1
      /\ step_result'.seen = step_result.seen
      /\ step_result'.fault = step_result.fault)
     => /\ step_result'.raised = step_result.raised
        /\ ~step_result.raised =>
             /\ step_result'.output.densities = step_result.output.densities
             /\ step_result'.output.priorities = step_result.output.priorities
             /\ step_result'.output.recommended_approach =
                  step_result.output.recommended_approach]_vars

\* ---- controller tick
\* C17: each successful tick appends exactly one density sample to each
\* approach's history, so after k successful ticks each history holds
\* min(k, 50) samples.
C17_OneSamplePerTick ==
  [][ticks' = ticks + 1 =>
       \A a \in ApproachSet :
         /\ Len(recorded'[a]) = Len(recorded[a]) + 1
         /\ Len(density_history'[a]) = (IF ticks' <= 50 THEN ticks' ELSE 50)]_vars

\* a tick has just advanced the state machine into a green phase
AdvancedIntoGreen ==
  /\ IsTick
  /\ step_result.decision.preempt \/ step_result.decision.timeout
  /\ current_phase_index \in {0, 2}

\* 33000 * (15 + (priority / 100) * 75) for the axis green phase p serves
ScaledDuration(p) == 15 * 33000 + 75 * ServedPriority(step_result.decision.priorities, p)

\* C18 (as stated): when the state machine advances into a green phase, that
\* phase's duration is exactly clamp(15, 90, 15 + (priority/100) * 75), priority
\* being the larger priority of the two approaches the phase serves.
C18_DurationIsClampedFormula ==
  AdvancedIntoGreen =>
    LET x == ScaledDuration(current_phase_index)
    IN 33000 * phases[current_phase_index] =
         (IF x < 15 * 33000 THEN 15 * 33000 ELSE IF x > 90 * 33000 THEN 90 * 33000 ELSE x)

\* C18 (amended): when the state machine advances into a green phase, that
\* phase's duration is clamp(15, 90, 15 + (priority/100) * 75) truncated to a
\* whole number of seconds, priority being the larger priority of the two
\* approaches the phase serves; the other axis has no influence.
C18_DurationIsTruncatedClamp ==
  AdvancedIntoGreen =>
    LET x == ScaledDuration(current_phase_index)
        d == phases[current_phase_index]
    IN /\ d \in 15..90
       /\ x >= 90 * 33000 => d = 90
       /\ x < 90 * 33000 => 33000 * d <= x /\ x < 33000 * (d + 1)

\* C18 witness: a green phase was entered with a duration strictly between the
\* clamps whose formula value is not a whole number, while the other axis
\* carries a different priority
C18_Witness ==
  /\ AdvancedIntoGreen
  /\ phases[current_phase_index] \in 16..89
  /\ 33000 * phases[current_phase_index] < ScaledDuration(current_phase_index)
  /\ ServedPriority(step_result.decision.priorities, 2 - current_phase_index)
       # ServedPriority(step_result.decision.priorities, current_phase_index)

\* the samples of approach a that the tick's decision was computed from: all
\* but the two recorded after it within the tick
SamplesAtDecision(a) == SubSeq(recorded[a], 1, Len(recorded[a]) - 2)

\* 825 * the least-squares slope of the last 10 of the samples y (vehicle
\* counts), over x = 0..9: 10 * SUM x*y - SUM x * SUM y; 0 below 10 samples
SlopeNumerator(y) ==
  IF Len(y) < 10 THEN 0
  ELSE LET w == SubSeq(y, Len(y) - 9, Len(y))
           sxy == 0 * w[1] + 1 * w[2] + 2 * w[3] + 3 * w[4] + 4 * w[5]
                  + 5 * w[6] + 6 * w[7] + 7 * w[8] + 8 * w[9] + 9 * w[10]
           sy == w[1] + w[2] + w[3] + w[4] + w[5] + w[6] + w[7] + w[8] + w[9] + w[10]
       IN 10 * sxy - 45 * sy

\* 1650 * (density*100 + trend*50 + emergencyCount*200) with density = count / 100
\* and trend = slope of the densities = SlopeNumerator / (825 * 100)
RawPriority1650(a) ==
  1650 * traciVehicles[a] + SlopeNumerator(SamplesAtDecision(a))
  + 1650 * 200 * traciEmergency[a]

\* C19: every approach's priority is max(0, density*100 + trend*50 +
\* emergencyCount*200), never negative; with trend 0 a count of 40 gives 40
\* without and 240 with one emergency vehicle.  (Priorities are held times 330.)
C19_PriorityFormula ==
  IsTick =>
    \A a \in ApproachSet :
      LET prio == step_result.decision.priorities[a]
          raw == RawPriority1650(a)
      IN /\ prio >= 0
         /\ 5 * prio = (IF raw > 0 THEN raw ELSE 0)
         /\ (SlopeNumerator(SamplesAtDecision(a)) = 0 /\ traciVehicles[a] = 40) =>
              /\ traciEmergency[a] = 0 => prio = 40 * 330
              /\ traciEmergency[a] = 1 => prio = 240 * 330

\* C19 witness: a falling density makes the sum negative on an approach and its
\* priority is 0
C19_Witness ==
  /\ IsTick
  /\ \E a \in ApproachSet :
       /\ RawPriority1650(a) < 0
       /\ step_result.decision.priorities[a] = 0

\* C20: with d = vehicle count / 100, the congestion level is Low iff d < 0.1,
\* Medium iff 0.1 <= d < 0.3, High iff 0.3 <= d < 0.5 and Critical iff
\* d >= 0.5; exactly one of the four levels is returned.
C20_CongestionLevels ==
  step_result.kind = "congestion" =>
    LET c == step_result.count
        level == step_result.level
    IN /\ level \in {"Low", "Medium", "High", "Critical"}
       /\ level = "Low" <=> c < 10
       /\ level = "Medium" <=> (10 <= c /\ c < 30)
       /\ level = "High" <=> (30 <= c /\ c < 50)
       /\ level = "Critical" <=> c >= 50

\* C20 witness: an approach carrying exactly 50 vehicles (density 0.5) was
\* classified Critical
C20_Witness ==
  /\ step_result.kind = "congestion"
  /\ step_result.count = 50
  /\ traciVehicles[step_result.approach] = 50
  /\ step_result.level = "Critical"

\* C15: a feed error during a tick never halts the control loop: the failed
\* tick returns a degraded result and the following ticks are still executed,
\* when ticks are driven one by one (the simulator stays running) and when
\* they are driven by run_simulation_for_duration (the run goes on to its end
\* time and returns).
C15_ErrorNeverHaltsLoop ==
  /\ step_result.kind = "step_error" => simulation_running
  /\ (step_result.kind = "run" /\ step_result.errors > 0) =>
       /\ ~step_result.raised
       /\ simulation_time >= step_result.end_time

\* the aggregator has returned recommendations
Recommended == step_result.kind = "recommendations" /\ ~step_result.raised

\* position of an approach in the fixed order north, south, east, west
OrderOf(a) ==
  IF a = "north2center" THEN 1 ELSE IF a = "south2center" THEN 2
  ELSE IF a = "east2center" THEN 3 ELSE 4

\* C21: the recommended approach has the maximum priority of the four, and of
\* the approaches sharing the maximum it is the first in the order north,
\* south, east, west (north when all priorities are 0).
C21_RecommendedIsFirstMaximum ==
  Recommended =>
    LET prio == step_result.output.priorities
        best == step_result.output.recommended_approach
    IN /\ best \in ApproachSet
       /\ \A a \in ApproachSet : prio[a] <= prio[best]
       /\ \A a \in ApproachSet : prio[a] = prio[best] => OrderOf(best) <= OrderOf(a)
       /\ (\A a \in ApproachSet : prio[a] = 0) => best = "north2center"

\* C21 witness: south and west share a non-zero maximum above north and east,
\* and south is recommended
C21_Witness ==
  /\ Recommended
  /\ step_result.output.priorities["south2center"] > 0
  /\ step_result.output.priorities["west2center"] = step_result.output.priorities["south2center"]
  /\ step_result.output.priorities["north2center"] < step_result.output.priorities["south2center"]
  /\ step_result.output.priorities["east2center"] < step_result.output.priorities["south2center"]
  /\ step_result.output.recommended_approach = "south2center"

C23_TrendOverLastWindow ==
  step_result.kind = "trend" =>
    LET y == recorded[step_result.approach]
    IN /\ Len(y) < 10 => step_result.trend = 0
       /\ Len(y) >= 10 => 5 * step_result.trend = SlopeNumerator(LastN(y, 10))

\* C23 witness: a history of more than 10 samples whose oldest sample differs
\* from every one of the last 10, which are all equal: the returned trend is 0,
\* the slope of the last 10 alone
C23_Witness ==
  /\ step_result.kind = "trend"
  /\ Len(recorded[step_result.approach]) > 10
  /\ step_result.trend = 0
  /\ \A i \in 1..10 :
       LastN(recorded[step_result.approach], 10)[i] # recorded[step_result.approach][1]

\* C24: the durations of the yellow phases 1 and 3 are 3 s in every reachable
\* state, whatever ticks, transitions, emergency overrides and resets came
\* before, and every command that enters a yellow phase is followed by the
\* command of a 3 s duration.
C24_YellowDurationFixed ==
  /\ phases[1] = 3
  /\ phases[3] = 3
  /\ \A i \in 1..Len(commands) :
       (commands[i].cmd = "setPhase" /\ commands[i].arg \in {1, 3})
         => /\ i < Len(commands)
            /\ commands[i + 1].cmd = "setPhaseDuration"
            /\ commands[i + 1].arg = 3

\* C24 witness: a tick enters the second yellow phase after both green
\* durations were recomputed to other values than the initial ones
C24_Witness ==
  /\ step_result.kind = "step"
  /\ Len(commands) >= 2
  /\ commands[1] = [cmd |-> "setPhase", arg |-> 3, by |-> "switch"]
  /\ phases[2] # InitGreen
  /\ phases[3] = 3

\* C25: after reset_optimization, called directly or by reset_simulation, the
\* current phase index is 0 and the phase start timestamp is 0, from every
\* prior state and also when the actuator rejects the reset commands.
C25_ResetZeroesControllerState ==
  step_result.kind \in {"reset", "reset_optimization"} =>
    /\ current_phase_index = 0
    /\ phase_start_time = 0

\* C25 witness: the actuator rejected both commands of a reset made while the
\* controller was in another phase with a later start timestamp; the signal
\* still shows another phase
C25_Witness ==
  /\ step_result.kind = "reset_optimization"
  /\ step_result.accepted = 0
  /\ step_result.index_before # 0
  /\ step_result.start_before # 0
  /\ traciPhase # 0
  /\ commands = << >>
  /\ current_phase_index = 0

\* C26: the optimal duration computed for a green phase, stored when the
\* state machine advances into it, is a whole number of seconds between 15 and
\* 60 inclusive, whatever the recommendations are.
C26_OptimalDurationWithin15And60 ==
  AdvancedIntoGreen =>
    /\ phases[current_phase_index] >= 15
    /\ phases[current_phase_index] <= 60

\* C27: at the end of every tick the controller's current phase index equals
\* the phase last commanded to the actuator, which is the phase read back from
\* the signal.
C27_IndexEqualsSignal ==
  IsTick =>
    /\ current_phase_index = traciPhase
    /\ Len(commands) > 0 =>
         \E i \in 1..Len(commands) :
           /\ commands[i].cmd = "setPhase"
           /\ commands[i].arg = current_phase_index
           /\ \A j \in (i + 1)..Len(commands) : commands[j].cmd # "setPhase"

\* C28: a tick's normal or preemptive transition commands the successor of
\* the phase the signal is showing when the tick begins, so that a green phase
\* g is followed by g + 1 unless the emergency override ends it.
C28_TransitionCommandsSuccessor ==
  [][ticks' = ticks + 1 =>
       \A i \in 1..Len(commands') :
         (commands'[i].cmd = "setPhase" /\ commands'[i].by = "switch")
           => commands'[i].arg = (traciPhase + 1) % 4]_vars

\* C29: at the end of every tick with a working feed, the signal shows phase 0
\* when north or south carries an emergency vehicle, and phase 2 when neither
\* does and east or west carries one, also when the normal or preemptive
\* transition switched the phase earlier in the same tick.
C29_EmergencyAxisGreenAtTickEnd ==
  IsTick =>
    /\ (traciEmergency["north2center"] > 0 \/ traciEmergency["south2center"] > 0)
         => traciPhase = 0
    /\ (/\ traciEmergency["north2center"] = 0
        /\ traciEmergency["south2center"] = 0
        /\ traciEmergency["east2center"] > 0 \/ traciEmergency["west2center"] > 0)
         => traciPhase = 2

\* C29 witness: in one tick the transition commanded a phase and the override
\* then commanded phase 2 for an emergency vehicle on east or west
C29_Witness ==
  /\ IsTick
  /\ Len(SwitchCommands) = 1
  /\ Len(EmergencyCommands) = 1
  /\ traciEmergency["north2center"] = 0
  /\ traciEmergency["south2center"] = 0
  /\ traciEmergency["east2center"] > 0 \/ traciEmergency["west2center"] > 0
  /\ SwitchCommands[1].arg # 2
  /\ traciPhase = 2

\* C30: an emergency vehicle that remains on an east or west approach is
\* served within a bounded number of ticks: no more than ServiceBound
\* consecutive ticks end with such a vehicle present and the signal in another
\* phase than 2, also while an emergency vehicle remains on a north or south
\* approach.
C30_EastWestEmergencyServed ==
  emergency_wait <= ServiceBound

\* the phase the signal shows when the emergency check of the tick reads it:
\* the one the tick's transition commanded, or else the one the tick found
SignalAtEmergencyCheck ==
  IF Len(SwitchCommands) > 0 THEN SwitchCommands[Len(SwitchCommands)].arg
  ELSE step_result.decision.phase

\* the first approach, in the order north, south, east, west, that carries an
\* emergency vehicle is on the north/south axis
NorthSouthEmergencyFirst ==
  traciEmergency["north2center"] > 0 \/ traciEmergency["south2center"] > 0

\* ... is on the east/west axis
EastWestEmergencyFirst ==
  /\ ~NorthSouthEmergencyFirst
  /\ traciEmergency["east2center"] > 0 \/ traciEmergency["west2center"] > 0

\* C34: when the first approach carrying an emergency vehicle is on the axis
\* whose green phase the signal already shows, the emergency check reports the
\* emergency as detected with no action taken and issues no phase or duration
\* command; phase index, start timestamp and durations are as the tick's
\* transition left them (as before the tick when no transition fired).
C34_ServedAxisNoAction ==
  (/\ IsTick
   /\ NorthSouthEmergencyFirst \/ EastWestEmergencyFirst
   /\ SignalAtEmergencyCheck = (IF NorthSouthEmergencyFirst THEN 0 ELSE 2)) =>
    /\ step_result.emergency.emergency_detected
    /\ ~step_result.emergency.action_taken
    /\ \A i \in 1..Len(commands) : commands[i].by # "emergency"
    /\ traciPhase = SignalAtEmergencyCheck
    /\ current_phase_index = step_result.optimization.current_phase
    /\ (~step_result.decision.preempt /\ ~step_result.decision.timeout) =>
         /\ commands = << >>
         /\ current_phase_index = step_result.decision.index_before
         /\ phase_start_time = step_result.decision.start_before
         /\ phases = step_result.decision.phases_before

\* C34 witness: an emergency vehicle on east or west while the signal shows
\* phase 2 and no transition is due: detected, nothing commanded
C34_Witness ==
  /\ IsTick
  /\ EastWestEmergencyFirst
  /\ step_result.decision.phase = 2
  /\ step_result.emergency.emergency_detected
  /\ ~step_result.emergency.action_taken
  /\ commands = << >>

\* C36: reset_optimization restores the default program: after it the phase
\* table holds the initial durations 30, 3, 30, 3 and the duration commanded
\* for phase 0 is 30, whatever green durations were computed before.
C36_ResetRestoresDefaultProgram ==
  step_result.kind = "reset_optimization" =>
    /\ phases[0] = 30 /\ phases[1] = 3 /\ phases[2] = 30 /\ phases[3] = 3
    /\ \A i \in 1..Len(commands) :
         commands[i].cmd = "setPhaseDuration" => commands[i].arg = 30

\* C38: the simulator's optimization history never holds more than 100
\* entries: a successful tick appends one entry and evicts the oldest when the
\* length would exceed 100, a failed tick and a tick attempted while the
\* simulation is not running append nothing, and a successful reset empties it.
C38_HistoryAtMost100 ==
  /\ Len(optimization_history) <= 100
  /\ [][/\ Len(optimization_history') <= 100
        /\ (ticks' = ticks + 1 /\ step_result'.kind = "step") =>
             optimization_history' =
               (IF Len(optimization_history) < 100
                THEN optimization_history \o << traciTime' >>
                ELSE SubSeq(optimization_history, 2, 100) \o << traciTime' >>)
        /\ step_result'.kind = "step_error" =>
             optimization_history' = optimization_history
        /\ step_result'.kind = "reset" => optimization_history' = << >>]_vars

\* C38 witness: a successful tick has evicted the oldest entry of a full history
C38_Witness ==
  /\ IsTick
  /\ Len(optimization_history) = 100
  /\ optimization_history[1] # StepLength
  /\ optimization_history[100] = traciTime

\* C35: with the simulation running and every feed and actuator call
\* succeeding, run_simulation_for_duration(duration) raises nothing and returns
\* once the simulation time has reached start + duration, its result listing
\* the steps executed.
C35_RunReturnsNormally ==
  (step_result.kind = "run" /\ step_result.errors = 0) =>
    /\ ~step_result.raised
    /\ simulation_time >= step_result.end_time

\* C37: the only vehicle command the conflict resolver issues is speed 0 for
\* a left-turning vehicle: every command of a pass is setSpeed(id, 0) for a
\* vehicle the pass found turning left, and no pass releases a vehicle held
\* before it, also after the oncoming through vehicle has gone.
C37_ResolverNeverReleases ==
  [][yield_passes' = yield_passes + 1 =>
       /\ \A k \in 1..Len(commands') :
            /\ commands'[k].cmd = "setSpeed"
            /\ commands'[k].arg = 0
            /\ \E i \in 1..Len(traciVehicleList) :
                 /\ traciVehicleList[i].id = commands'[k].veh
                 /\ NextEdgeOf(traciVehicleList[i]) =
                      LeftTurnExit(traciVehicleList[i].road)
       /\ traciStopped \subseteq traciStopped']_vars

\* C37 witness: a pass has found a held left-turning vehicle near the stop
\* line with no through vehicle left on the opposite approach, and has issued
\* no command
C37_Witness ==
  /\ step_result.kind = "yielding"
  /\ commands = << >>
  /\ \E i \in 1..Len(step_result.seen) :
       /\ step_result.seen[i].id \in traciStopped
       /\ step_result.seen[i].road \in ApproachSet
       /\ step_result.seen[i].gap < YieldDistance
       /\ \A j \in 1..Len(step_result.seen) :
            step_result.seen[j].road \notin ApproachSet \/ j = i

\* C33: the controller's own transitions never cut a yellow phase short: a
\* tick that finds the signal in phase 1 or 3 does not apply the preemptive
\* rule, and a tick whose transition replaces a yellow phase on the signal
\* comes at least 3 seconds after that yellow phase was commanded.
C33_YellowNotCutShort ==
  [][(ticks' = ticks + 1 /\ step_result'.kind = "step" /\ traciPhase \in {1, 3}) =>
       /\ ~step_result'.decision.preempt
       /\ (\E i \in DOMAIN commands' : commands'[i].by = "switch") =>
            traciTime' - signal_since >= YellowDuration]_vars

\* C33 witness: a tick found the signal in a yellow phase that a transition
\* had commanded less than 3 seconds before and left it alone, although the
\* other axis had more than 1.5 times the priority of the one just served
C33_Witness ==
  /\ IsTick
  /\ step_result.decision.phase \in {1, 3}
  /\ step_result.decision.held < YellowDuration
  /\ step_result.decision.held = step_result.decision.time_in_phase
  /\ ~step_result.decision.preempt /\ ~step_result.decision.timeout
  /\ commands = << >>
  /\ traciPhase = step_result.decision.phase
  /\ should_preempt_InYellow(step_result.decision, step_result.decision.priorities)

\* C32: no axis waits more than MAX_WAIT_TIME = 60 seconds for its green: while
\* the signal shows the green of one axis, the other axis, whose own green
\* ended before this one began, has been waiting for at most 60 seconds.
C32_NoAxisWaitsOverMaxWait ==
  (simulation_running /\ (traciPhase = 2 \/ (traciPhase = 0 /\ signal_since > 0))) =>
    traciTime - signal_since <= MAX_WAIT_TIME

\* C31: with no emergency vehicle, a working feed and the clock advancing on
\* every tick the phase cycle never stalls: a tick leaves the signal in its
\* phase or advances it to the next phase of the cycle, no tick leaves a phase
\* on the signal that has lasted its stored duration (at most 90 s for a green
\* phase, 3 s for a yellow one), and a phase that ends has lasted less than its
\* stored duration plus one simulation step.
C31_CycleNeverStalls ==
  [][(ticks' = ticks + 1 /\ step_result'.kind = "step") =>
       /\ traciPhase' \in {traciPhase, NextPhaseIndex(traciPhase)}
       /\ traciPhase' = current_phase_index'
       /\ traciTime' - signal_since' < phases'[traciPhase']
       /\ phases'[traciPhase'] <=
            (IF traciPhase' \in {0, 2} THEN MAX_GREEN ELSE YellowDuration)
       /\ traciPhase' # traciPhase =>
            traciTime' - signal_since < phases[traciPhase] + FineStep]_vars

\* C31 witness: the east-west green phase is entered for the second time, at
\* the expiry of the yellow phase before it, after a full cycle of the signal
C31_Witness ==
  /\ IsTick
  /\ traciPhase = 2
  /\ step_result.decision.phase = 1
  /\ step_result.decision.timeout
  /\ step_result.decision.time_in_phase = YellowDuration
  /\ signal_since = traciTime
  /\ traciTime > 2 * (InitGreen + YellowDuration)
====
